---- MODULE Spec2Model ----
(***************************************************************************)
(* BinaryParagraph (src/vcpkg/binaryparagraph.cpp): the three constructors, *)
(* canonicalize, operator== and serialize with its round-trip sanity check. *)
(*                                                                          *)
(* A string is a sequence of lexemes.  A lexeme is either one character     *)
(* (" ", "\n", ":", ",", "-", a digit, ...) or a word of the characters      *)
(* [A-Za-z0-9.-] that every parser below scans as one unit ("zlib",         *)
(* "x64-linux", "Package").  The empty string is << >>.                     *)
(***************************************************************************)
EXTENDS Integers, Sequences, FiniteSets, TLC

\* ------------------------------------------------------------------ bounds
MaxLines == 2         \* lines of a description handed to a constructor
MaxDeps == 3          \* dependencies handed to a constructor
MaxPortVersion == 1   \* largest port_version of a source port

\* ------------------------------------------------------- Fields (lines 11-28)
PACKAGE == "Package"
VERSION == "Version"
PORT_VERSION == "Port-Version"
ARCHITECTURE == "Architecture"
MULTI_ARCH == "Multi-Arch"
ABI == "Abi"
FEATURE == "Feature"
DESCRIPTION == "Description"
MAINTAINER == "Maintainer"
DEPENDS == "Depends"
DEFAULT_FEATURES == "Default-Features"

\* --------------------------------------------------------- string helpers
Digits == <<"0", "1", "2", "3", "4", "5", "6", "7", "8", "9">>

IsSpace(c) == c \in {" ", "\t", "\n"}

IsTabOrSpace(c) == c \in {" ", "\t"}

\* characters that end a word: a word lexeme is anything else
IsPunct(c) == c \in {" ", "\t", "\n", ":", ",", "[", "]", "(", ")"}

Range(s) == {s[i] : i \in 1..Len(s)}

\* Strings::join(delimiter, range)
RECURSIVE StringsJoin(_, _)
StringsJoin(delimiter, v) ==
    IF v = << >> THEN << >>
    ELSE IF Len(v) = 1 THEN v[1]
    ELSE v[1] \o delimiter \o StringsJoin(delimiter, Tail(v))

\* Strings::inplace_trim: drops leading and trailing whitespace
RECURSIVE TrimLeft(_)
TrimLeft(s) == IF s # << >> /\ IsSpace(Head(s)) THEN TrimLeft(Tail(s)) ELSE s

RECURSIVE TrimRight(_)
TrimRight(s) ==
    IF s # << >> /\ IsSpace(s[Len(s)]) THEN TrimRight(SubSeq(s, 1, Len(s) - 1)) ELSE s

inplace_trim(s) == TrimRight(TrimLeft(s))

\* Strings::split(s, delimiter): the maximal runs of non-delimiter characters,
\* in order; an empty run (two delimiters in a row, a leading or trailing
\* delimiter) yields no element.
RECURSIVE SplitFrom(_, _, _, _)
SplitFrom(s, delimiter, i, cur) ==
    IF i > Len(s) THEN (IF cur = << >> THEN << >> ELSE <<cur>>)
    ELSE IF s[i] = delimiter
         THEN (IF cur = << >> THEN << >> ELSE <<cur>>) \o SplitFrom(s, delimiter, i + 1, << >>)
         ELSE SplitFrom(s, delimiter, i + 1, Append(cur, s[i]))

StringsSplit(s, delimiter) == SplitFrom(s, delimiter, 1, << >>)

\* fmt::format("{}", int): decimal digits, "-" first for a negative number
RECURSIVE FormatNat(_)
FormatNat(n) == IF n < 10 THEN <<Digits[n + 1]>> ELSE Append(FormatNat(n \div 10), Digits[(n % 10) + 1])

FormatInt(n) == IF n < 0 THEN <<"-">> \o FormatNat(-n) ELSE FormatNat(n)

DigitValue(c) == CHOOSE d \in 0..9 : Digits[d + 1] = c

IsDigit(c) == c \in Range(Digits)

RECURSIVE NatValue(_)
NatValue(s) == IF s = << >> THEN 0 ELSE 10 * NatValue(SubSeq(s, 1, Len(s) - 1)) + DigitValue(s[Len(s)])

\* Strings::strto<int>: the whole string must be a decimal integer with an
\* optional sign; anything else is nullopt.
NullOpt == [has_value |-> FALSE]

Some(v) == [has_value |-> TRUE, value |-> v]

StrToInt(s) ==
    LET body == IF s # << >> /\ s[1] \in {"-", "+"} THEN Tail(s) ELSE s
    IN IF body = << >> \/ \E i \in 1..Len(body) : ~IsDigit(body[i]) THEN NullOpt
       ELSE IF s[1] = "-" THEN Some(-NatValue(body)) ELSE Some(NatValue(body))

\* ------------------------------------------- Paragraphs::parse_single_paragraph
\* The field-record tokenizer.  A field is `name ":" value`; the value runs to
\* the end of the line and continues on every following line that starts with
\* a space (the continuation keeps its indentation, after a "\n"); a
\* continuation line holding nothing but indentation is an error.  A blank line
\* ends the paragraph, and exactly one paragraph must be present.
ParseError == [ok |-> FALSE]

RECURSIVE SkipTabsSpaces(_, _)
SkipTabsSpaces(s, i) == IF i <= Len(s) /\ IsTabOrSpace(s[i]) THEN SkipTabsSpaces(s, i + 1) ELSE i

RECURSIVE SkipWhitespace(_, _)
SkipWhitespace(s, i) == IF i <= Len(s) /\ IsSpace(s[i]) THEN SkipWhitespace(s, i + 1) ELSE i

RECURSIVE MatchUntilLineEnd(_, _)
MatchUntilLineEnd(s, i) == IF i <= Len(s) /\ s[i] # "\n" THEN MatchUntilLineEnd(s, i + 1) ELSE i

RECURSIVE GetFieldValue(_, _, _)
GetFieldValue(s, i, acc) ==
    LET j == MatchUntilLineEnd(s, i)
        value == acc \o SubSeq(s, i, j - 1)
        k == IF j <= Len(s) THEN j + 1 ELSE j
        m == SkipTabsSpaces(s, k)
    IN IF k > Len(s) \/ s[k] # " " THEN [ok |-> TRUE, next |-> k, value |-> value]
       ELSE IF m > Len(s) \/ s[m] = "\n" THEN ParseError
       ELSE GetFieldValue(s, m, value \o <<"\n">> \o SubSeq(s, k, m - 1))

RECURSIVE GetParagraph(_, _, _)
GetParagraph(s, i, fields) ==
    IF i > Len(s) \/ IsPunct(s[i]) THEN ParseError
    ELSE IF i + 1 > Len(s) \/ s[i + 1] # ":" THEN ParseError
    ELSE IF s[i] \in DOMAIN fields THEN ParseError
    ELSE LET v == GetFieldValue(s, SkipTabsSpaces(s, i + 2), << >>)
         IN IF ~v.ok THEN ParseError
            ELSE LET got == [n \in DOMAIN fields \cup {s[i]} |->
                                 IF n = s[i] THEN v.value ELSE fields[n]]
                 IN IF v.next > Len(s) \/ s[v.next] = "\n"
                    THEN [ok |-> TRUE, next |-> v.next, fields |-> got]
                    ELSE GetParagraph(s, v.next, got)

EmptyParagraph == [n \in {} |-> << >>]

parse_single_paragraph(str) ==
    LET first == GetParagraph(str, SkipWhitespace(str, 1), EmptyParagraph)
    IN IF ~first.ok THEN ParseError
       ELSE IF \E i \in first.next..Len(str) : str[i] # "\n" THEN ParseError
       ELSE [ok |-> TRUE, fields |-> first.fields]

\* ------------------------------------------------------- ParagraphParser
\* optional_field: the value, or the empty string when the field is absent
optional_field(fields, name) == IF name \in DOMAIN fields THEN fields[name] ELSE << >>

\* required_field: as optional_field, and a missing field is an accumulated error
MissingField(name) == [kind |-> "missing_field", field |-> name]

required_field_errors(fields, name) == IF name \in DOMAIN fields THEN {} ELSE {MissingField(name)}

\* ----------------------------------------------------- PackageSpec, Triplet
\* std::string order on the words used as package and triplet names
Collation == <<"openssl", "x64-linux", "x64-windows", "zlib">>

CollationIndex(c) == CHOOSE i \in 1..Len(Collation) : Collation[i] = c

RECURSIVE StringLess(_, _)
StringLess(a, b) ==
    IF b = << >> THEN FALSE
    ELSE IF a = << >> THEN TRUE
    ELSE IF Head(a) # Head(b) THEN CollationIndex(Head(a)) < CollationIndex(Head(b))
    ELSE StringLess(Tail(a), Tail(b))

PackageSpec(name, triplet) == [name |-> name, triplet |-> triplet]

\* PackageSpec order: by name, then by triplet
PackageSpecLess(a, b) ==
    \/ StringLess(a.name, b.name)
    \/ a.name = b.name /\ StringLess(a.triplet, b.triplet)

\* PackageSpec::to_string: name:triplet
PackageSpecToString(pspec) == pspec.name \o <<":">> \o pspec.triplet

\* Util::sort_unique_erase: sorted by operator<, one copy of each element
RECURSIVE SortedSeqOf(_)
SortedSeqOf(S) ==
    IF S = {} THEN << >>
    ELSE LET least == CHOOSE x \in S : \A y \in S \ {x} : PackageSpecLess(x, y)
         IN <<least>> \o SortedSeqOf(S \ {least})

sort_unique_erase(v) == SortedSeqOf(Range(v))

\* ------------------------------------------ parse_qualified_specifier_list
\* name [ "[" feature {"," feature} "]" ] [ ":" triplet ] [ "(" platform ")" ],
\* comma separated, whitespace allowed around the commas and before "(".
NoTriplet == [has_value |-> FALSE]

IsWordAt(s, i) == i <= Len(s) /\ ~IsPunct(s[i])

RECURSIVE FeatureListEnd(_, _)
\* s[i] is the word after "[" or after a ","; the index after "]", or 0
FeatureListEnd(s, i) ==
    IF ~IsWordAt(s, i) THEN 0
    ELSE LET j == SkipTabsSpaces(s, i + 1)
         IN IF j > Len(s) THEN 0
            ELSE IF s[j] = "]" THEN j + 1
            ELSE IF s[j] = "," THEN FeatureListEnd(s, SkipTabsSpaces(s, j + 1))
            ELSE 0

RECURSIVE PlatformEnd(_, _)
\* the index after the ")" closing a platform expression opened before i, or 0
PlatformEnd(s, i) ==
    IF i > Len(s) \/ s[i] \in {"(", "\n"} THEN 0
    ELSE IF s[i] = ")" THEN i + 1
    ELSE PlatformEnd(s, i + 1)

ParseQualifiedSpecifier(s, i) ==
    IF ~IsWordAt(s, i) THEN ParseError
    ELSE LET afterName == i + 1
             hasFeatures == afterName <= Len(s) /\ s[afterName] = "["
             afterFeatures == IF hasFeatures THEN FeatureListEnd(s, SkipTabsSpaces(s, afterName + 1))
                              ELSE afterName
         IN IF afterFeatures = 0 THEN ParseError
            ELSE LET hasTriplet == afterFeatures <= Len(s) /\ s[afterFeatures] = ":"
                     afterTriplet == IF hasTriplet THEN afterFeatures + 2 ELSE afterFeatures
                 IN IF hasTriplet /\ ~IsWordAt(s, afterFeatures + 1) THEN ParseError
                    ELSE LET p == SkipTabsSpaces(s, afterTriplet)
                             hasPlatform == p <= Len(s) /\ s[p] = "("
                             afterPlatform == IF hasPlatform THEN PlatformEnd(s, p + 1) ELSE afterTriplet
                         IN IF afterPlatform = 0 THEN ParseError
                            ELSE [ok |-> TRUE, next |-> afterPlatform,
                                  value |-> [name |-> <<s[i]>>,
                                             triplet |-> IF hasTriplet THEN Some(<<s[afterFeatures + 1]>>)
                                                         ELSE NoTriplet,
                                             features |-> IF hasFeatures
                                                          THEN SubSeq(s, afterName, afterFeatures - 1)
                                                          ELSE << >>,
                                             platform |-> IF hasPlatform
                                                          THEN SubSeq(s, p, afterPlatform - 1)
                                                          ELSE << >>]]

RECURSIVE ParseSpecifierListFrom(_, _, _)
ParseSpecifierListFrom(s, i, acc) ==
    LET item == ParseQualifiedSpecifier(s, SkipWhitespace(s, i))
    IN IF ~item.ok THEN ParseError
       ELSE LET j == SkipWhitespace(s, item.next)
            IN IF j > Len(s) THEN [ok |-> TRUE, value |-> Append(acc, item.value)]
               ELSE IF s[j] = "," THEN ParseSpecifierListFrom(s, j + 1, Append(acc, item.value))
               ELSE ParseError

parse_qualified_specifier_list(str) ==
    IF SkipWhitespace(str, 1) > Len(str) THEN [ok |-> TRUE, value |-> << >>]
    ELSE ParseSpecifierListFrom(str, 1, << >>)

\* ------------------------------------------------ parse_default_features_list
\* comma separated feature names, whitespace allowed around the commas
RECURSIVE ParseFeatureListFrom(_, _, _)
ParseFeatureListFrom(s, i, acc) ==
    LET n == SkipWhitespace(s, i)
    IN IF ~IsWordAt(s, n) THEN ParseError
       ELSE LET j == SkipWhitespace(s, n + 1)
            IN IF j > Len(s) THEN [ok |-> TRUE, value |-> Append(acc, <<s[n]>>)]
               ELSE IF s[j] = "," THEN ParseFeatureListFrom(s, j + 1, Append(acc, <<s[n]>>))
               ELSE ParseError

parse_default_features_list(str) ==
    IF SkipWhitespace(str, 1) > Len(str) THEN [ok |-> TRUE, value |-> << >>]
    ELSE ParseFeatureListFrom(str, 1, << >>)

\* ------------------------------------------------------------ BinaryParagraph
\* BinaryParagraph::BinaryParagraph() = default
DefaultBinaryParagraph ==
    [spec |-> PackageSpec(<< >>, << >>),
     version |-> [text |-> << >>, port_version |-> 0],
     description |-> << >>,
     maintainers |-> << >>,
     feature |-> << >>,
     default_features |-> << >>,
     dependencies |-> << >>,
     abi |-> << >>]

is_feature(pgh) == pgh.feature # << >>

all_empty(range) == \A i \in 1..Len(range) : range[i] = << >>

TrimEach(v) == [i \in 1..Len(v) |-> inplace_trim(v[i])]

\* canonicalize without Util::sort_unique_erase
MutantCanonicalizeNoSort(pgh) ==
    [pgh EXCEPT !.maintainers = IF all_empty(TrimEach(pgh.maintainers)) THEN << >>
                                ELSE TrimEach(pgh.maintainers),
                !.description = IF all_empty(TrimEach(pgh.description)) THEN << >>
                                ELSE TrimEach(pgh.description)]

\* canonicalize without the all_empty / clear() steps
MutantCanonicalizeNoClear(pgh) ==
    [pgh EXCEPT !.dependencies = sort_unique_erase(pgh.dependencies),
                !.maintainers = TrimEach(pgh.maintainers),
                !.description = TrimEach(pgh.description)]

canonicalize(pgh) ==
    LET maintainers == TrimEach(pgh.maintainers)
        description == TrimEach(pgh.description)
    IN [pgh EXCEPT !.dependencies = sort_unique_erase(pgh.dependencies),
                   !.maintainers = IF all_empty(maintainers) THEN << >> ELSE maintainers,
                   !.description = IF all_empty(description) THEN << >> ELSE description]

\* ---- BinaryParagraph(StringView origin, Paragraph&& fields)
PortVersionError == [kind |-> "port_version_not_integer", field |-> PORT_VERSION]

ReadSpec(fields) ==
    [spec |-> PackageSpec(optional_field(fields, PACKAGE), optional_field(fields, ARCHITECTURE)),
     errors |-> required_field_errors(fields, PACKAGE) \cup required_field_errors(fields, ARCHITECTURE)]

\* a Port-Version that is no integer silently becomes 0
MutantReadPortVersionSilent(fields) ==
    [port_version |-> IF StrToInt(optional_field(fields, PORT_VERSION)).has_value
                      THEN StrToInt(optional_field(fields, PORT_VERSION)).value ELSE 0,
     errors |-> {}]

ReadPortVersion(fields) ==
    LET pv_str == optional_field(fields, PORT_VERSION)
        pv_opt == StrToInt(pv_str)
    IN IF pv_str = << >> THEN [port_version |-> 0, errors |-> {}]
       ELSE IF pv_opt.has_value THEN [port_version |-> pv_opt.value, errors |-> {}]
       ELSE [port_version |-> 0, errors |-> {PortVersionError}]

\* the explicit triplet of a reference is dropped with the rest
MutantResolveOwnTriplet(dep, my_triplet) == PackageSpec(dep.name, my_triplet)

ResolveDependency(dep, my_triplet) ==
    PackageSpec(dep.name, IF dep.triplet.has_value THEN dep.triplet.value ELSE my_triplet)

\* Util::fmap over the parsed list, when there is one
ResolveDependencies(parsed, my_triplet) ==
    IF ~parsed.ok THEN ParseError
    ELSE [ok |-> TRUE,
          value |-> [i \in 1..Len(parsed.value) |-> ResolveDependency(parsed.value[i], my_triplet)]]

ReadDependencies(fields, my_triplet) ==
    ResolveDependencies(parse_qualified_specifier_list(optional_field(fields, DEPENDS)), my_triplet)

\* Default-Features is read on a feature record too
MutantReadDefaultFeaturesAlways(fields, feature) ==
    parse_default_features_list(optional_field(fields, DEFAULT_FEATURES))

ReadDefaultFeatures(fields, feature) ==
    IF feature # << >> THEN [ok |-> TRUE, value |-> << >>]
    ELSE parse_default_features_list(optional_field(fields, DEFAULT_FEATURES))

\* Multi-Arch is checked before the accumulated errors
MutantFinalChecksMultiArchFirst(errors, multi_arch) ==
    IF multi_arch # <<"same">> THEN "exit_multi_arch"
    ELSE IF errors # {} THEN "exit_fail"
    ELSE "constructed"

\* the end of the constructor: the accumulated errors first, Multi-Arch second
FinalChecks(errors, multi_arch) ==
    IF errors # {} THEN "exit_fail"
    ELSE IF multi_arch # <<"same">> THEN "exit_multi_arch"
    ELSE "constructed"

\* The fields as read and split, before canonicalize (lines 35-79)
FieldsAsRead(fields, port_version, dependencies, default_features) ==
    [spec |-> PackageSpec(optional_field(fields, PACKAGE), optional_field(fields, ARCHITECTURE)),
     version |-> [text |-> optional_field(fields, VERSION), port_version |-> port_version],
     description |-> StringsSplit(optional_field(fields, DESCRIPTION), "\n"),
     maintainers |-> StringsSplit(optional_field(fields, MAINTAINER), "\n"),
     feature |-> optional_field(fields, FEATURE),
     default_features |-> default_features,
     dependencies |-> dependencies,
     abi |-> optional_field(fields, ABI)]

\* every error the parser has accumulated when line 65 is reached
AccumulatedErrors(fields) ==
    ReadSpec(fields).errors
    \cup ReadPortVersion(fields).errors
    \cup required_field_errors(fields, MULTI_ARCH)

\* How construction ends.  "constructed", or where the process exits:
\* "exit_depends" / "exit_default_features" (value_or_exit), "exit_fail" (the
\* accumulated errors are printed), "exit_multi_arch".
ConstructionOutcome(deps_ok, default_features_ok, accumulated, multi_arch) ==
    IF ~deps_ok THEN "exit_depends"
    ELSE IF ~default_features_ok THEN "exit_default_features"
    ELSE FinalChecks(accumulated, multi_arch)

ConstructionResult(how, raw, accumulated) ==
    [outcome |-> how,
     pgh |-> IF how = "constructed" THEN canonicalize(raw) ELSE raw,
     errors |-> accumulated,
     reported |-> IF how = "exit_fail" THEN accumulated ELSE {}]

ValueOr(expected, default) == IF expected.ok THEN expected.value ELSE default

ConstructFrom(fields, deps, default_features, accumulated) ==
    ConstructionResult(
        ConstructionOutcome(deps.ok, default_features.ok, accumulated, optional_field(fields, MULTI_ARCH)),
        FieldsAsRead(fields, ReadPortVersion(fields).port_version,
                     ValueOr(deps, << >>), ValueOr(default_features, << >>)),
        accumulated)

\* The whole constructor.  errors is the parser's accumulated error list when
\* construction ends (a set: the two required_field calls of line 35 are
\* unsequenced); reported is what print_error_message printed.
BinaryParagraphFromFields(fields) ==
    ConstructFrom(fields,
                  ReadDependencies(fields, optional_field(fields, ARCHITECTURE)),
                  ReadDefaultFeatures(fields, optional_field(fields, FEATURE)),
                  AccumulatedErrors(fields))

\* ---- BinaryParagraph(const SourceParagraph&, default_features, triplet, abi_tag, deps)
BinaryParagraphFromSource(spgh, default_features, triplet, abi_tag, deps) ==
    canonicalize([spec |-> PackageSpec(spgh.name, triplet),
                  version |-> spgh.version,
                  description |-> spgh.description,
                  maintainers |-> spgh.maintainers,
                  feature |-> << >>,
                  default_features |-> default_features,
                  dependencies |-> deps,
                  abi |-> abi_tag])

\* ---- BinaryParagraph(const PackageSpec&, const FeatureParagraph&, deps)
BinaryParagraphFromFeature(spec, fpgh, deps) ==
    canonicalize([spec |-> spec,
                  version |-> [text |-> << >>, port_version |-> 0],
                  description |-> fpgh.description,
                  maintainers |-> << >>,
                  feature |-> fpgh.name,
                  default_features |-> << >>,
                  dependencies |-> deps,
                  abi |-> << >>])

\* operator== without the description comparison
MutantEqualIgnoringDescription(lhs, rhs) ==
    /\ lhs.spec = rhs.spec
    /\ lhs.version = rhs.version
    /\ lhs.maintainers = rhs.maintainers
    /\ lhs.feature = rhs.feature
    /\ lhs.default_features = rhs.default_features
    /\ lhs.dependencies = rhs.dependencies
    /\ lhs.abi = rhs.abi

\* ---- operator==
BinaryParagraphEqual(lhs, rhs) ==
    IF lhs.spec # rhs.spec THEN FALSE
    ELSE IF lhs.version # rhs.version THEN FALSE
    ELSE IF lhs.description # rhs.description THEN FALSE
    ELSE IF lhs.maintainers # rhs.maintainers THEN FALSE
    ELSE IF lhs.feature # rhs.feature THEN FALSE
    ELSE IF lhs.default_features # rhs.default_features THEN FALSE
    ELSE IF lhs.dependencies # rhs.dependencies THEN FALSE
    ELSE IF lhs.abi # rhs.abi THEN FALSE
    ELSE TRUE

\* ------------------------------------------------------------------ serialize
FieldHeader(name) == <<name, ":", " ">>

serialize_string(name, field) ==
    IF field = << >> THEN << >> ELSE FieldHeader(name) \o field \o <<"\n">>

serialize_array(name, array, joiner) ==
    IF array = << >> THEN << >> ELSE FieldHeader(name) \o StringsJoin(joiner, array) \o <<"\n">>

serialize_paragraph(name, array) == serialize_array(name, array, <<"\n", " ", " ", " ", " ">>)

\* every dependency rendered as name:triplet
MutantDepsListAlwaysQualified(deps, target) ==
    StringsJoin(<<",", " ">>, [i \in 1..Len(deps) |-> PackageSpecToString(deps[i])])

serialize_deps_list(deps, target) ==
    StringsJoin(<<",", " ">>,
                [i \in 1..Len(deps) |-> IF deps[i].triplet = target THEN deps[i].name
                                        ELSE PackageSpecToString(deps[i])])

\* what serialize appends to out_str (lines 235-262)
SerializedText(pgh) ==
    serialize_string(PACKAGE, pgh.spec.name)
    \o serialize_string(VERSION, pgh.version.text)
    \o (IF pgh.version.port_version # 0
        THEN FieldHeader(PORT_VERSION) \o FormatInt(pgh.version.port_version) \o <<"\n">>
        ELSE << >>)
    \o (IF is_feature(pgh) THEN serialize_string(FEATURE, pgh.feature) ELSE << >>)
    \o (IF pgh.dependencies # << >>
        THEN serialize_string(DEPENDS, serialize_deps_list(pgh.dependencies, pgh.spec.triplet))
        ELSE << >>)
    \o serialize_string(ARCHITECTURE, pgh.spec.triplet)
    \o serialize_string(MULTI_ARCH, <<"same">>)
    \o serialize_paragraph(MAINTAINER, pgh.maintainers)
    \o serialize_string(ABI, pgh.abi)
    \o serialize_paragraph(DESCRIPTION, pgh.description)
    \o serialize_array(DEFAULT_FEATURES, pgh.default_features, <<",", " ">>)

\* the sanity check of the serialized data (lines 264-287): "returned", or how
\* the process ends
CompareReparsed(pgh, binary_paragraph) ==
    IF binary_paragraph.outcome # "constructed" THEN binary_paragraph.outcome
    ELSE IF ~BinaryParagraphEqual(binary_paragraph.pgh, pgh) THEN "exit_mismatched"
    ELSE "returned"

ReparseAndCompare(pgh, parsed_paragraph) ==
    IF ~parsed_paragraph.ok THEN "exit_failed_to_parse"
    ELSE CompareReparsed(pgh, BinaryParagraphFromFields(parsed_paragraph.fields))

SanityCheck(pgh, my_paragraph) == ReparseAndCompare(pgh, parse_single_paragraph(my_paragraph))

\* ------------------------------------------------------------------- inputs
SeqsUpTo(S, n) == UNION {[1..k -> S] : k \in 0..n}

Triplets == {<<"x64-linux">>, <<"x64-windows">>}

DepSpecs ==
    {PackageSpec(<<"openssl">>, <<"x64-linux">>),
     PackageSpec(<<"zlib">>, <<"x64-linux">>),
     PackageSpec(<<"zlib">>, <<"x64-windows">>)}

\* one line of a description or maintainer list: blank, plain, padded
LineChoices == {<<" ">>, <<"a">>, <<" ", "b", " ">>}

MaintainerChoices == {<< >>, << <<" ">> >>, << <<"a">>, <<" ">> >>}

VersionChoices ==
    {[text |-> << >>, port_version |-> 0]}
    \cup {[text |-> <<"1.3">>, port_version |-> n] : n \in 0..MaxPortVersion}

DefaultFeatureChoices == {<< >>, << <<"ssl">> >>, << <<"ssl">>, <<"core">> >>}

AbiChoices == {<< >>, <<"abc123">>}

SourceParagraphs(versions, descriptions, maintainers) ==
    [name : {<<"zlib">>}, version : versions, description : descriptions, maintainers : maintainers]

\* core builds: the text of the port varies, or what it depends on and offers
SourceChoices ==
    [spgh : SourceParagraphs(VersionChoices, SeqsUpTo(LineChoices, MaxLines), MaintainerChoices),
     default_features : {<< >>},
     triplet : {<<"x64-linux">>},
     abi_tag : AbiChoices,
     deps : {<< >>}]
    \cup
    [spgh : SourceParagraphs(VersionChoices, {<< <<"a">> >>}, {<< >>}),
     default_features : DefaultFeatureChoices,
     triplet : Triplets,
     abi_tag : {<<"abc123">>},
     deps : SeqsUpTo(DepSpecs, MaxDeps)]

\* a field the Paragraph does not hold
Absent == <<"<absent>">>

GoodDepends ==
    {Absent,
     <<"openssl", ",", " ", "zlib", ":", "x64-windows">>,
     <<"zlib", ":", "x64-windows", ",", "openssl", ",", "openssl">>,
     <<"openssl", ",", " ", "zlib", "[", "core", "]", ":", "x64-windows", " ", "(", "windows", ")">>}

\* records whose fields are well formed: what the fields hold varies
ContentChoices ==
    [Package : {<<"zlib">>},
     Architecture : {<<"x64-linux">>},
     Version : {Absent, <<"1.3">>},
     PortVersion : {Absent, <<"1">>, <<"-", "1">>},
     Feature : {Absent, <<"ssl">>},
     Description : {Absent, <<"a", "\n", " ", "\n", "b">>, <<" ", "\n", " ">>},
     Maintainer : {Absent, <<" ", "a", "\n", " ", " ", "b">>},
     Abi : {Absent, <<"abc123">>},
     MultiArch : {<<"same">>},
     Depends : GoodDepends,
     DefaultFeatures : {Absent, <<"ssl", ",", " ", "core">>}]

\* records with missing or malformed fields: which fields are wrong varies
ErrorChoices ==
    [Package : {Absent, <<"zlib">>},
     Architecture : {Absent, <<"x64-linux">>},
     Version : {<<"1.3">>},
     PortVersion : {Absent, <<"1">>, <<"-", "1">>, <<"x">>},
     Feature : {Absent, <<"ssl">>},
     Description : {Absent},
     Maintainer : {Absent},
     Abi : {Absent},
     MultiArch : {Absent, <<"same">>, <<"not-same">>},
     Depends : {Absent, <<"openssl", ",", " ", "zlib", ":", "x64-windows">>, <<"zlib", ":">>},
     DefaultFeatures : {Absent, <<"ssl", ",", ",">>}]

FieldChoices == ContentChoices \cup ErrorChoices

Paragraph(c) ==
    LET byName == [n \in {PACKAGE, ARCHITECTURE, VERSION, PORT_VERSION, FEATURE, DESCRIPTION,
                          MAINTAINER, ABI, MULTI_ARCH, DEPENDS, DEFAULT_FEATURES} |->
                      CASE n = PACKAGE -> c.Package
                        [] n = ARCHITECTURE -> c.Architecture
                        [] n = VERSION -> c.Version
                        [] n = PORT_VERSION -> c.PortVersion
                        [] n = FEATURE -> c.Feature
                        [] n = DESCRIPTION -> c.Description
                        [] n = MAINTAINER -> c.Maintainer
                        [] n = ABI -> c.Abi
                        [] n = MULTI_ARCH -> c.MultiArch
                        [] n = DEPENDS -> c.Depends
                        [] n = DEFAULT_FEATURES -> c.DefaultFeatures]
    IN [n \in {m \in DOMAIN byName : byName[m] # Absent} |-> byName[n]]

\* what the caller's out_str holds before serialize appends to it
OutStrChoices == {<< >>, <<"Package", ":", " ", "zlib", "\n", "\n">>}

\* -------------------------------------------------------------------- state
VARIABLES
    phase,       \* "none": no record; "live": a constructed record; "exited": the process ended
    origin,      \* which constructor ran: "none", "fields", "source", "feature"
    args,        \* the constructor's arguments
    pgh,         \* the BinaryParagraph
    outcome,     \* how construction ended
    errors,      \* the parser's accumulated errors when construction ended
    reported,    \* the accumulated errors print_error_message printed
    out_str,     \* serialize's out_str
    initial_end, \* out_str.size() when serialize was entered
    ser_result   \* "none", "returned", or how serialize ended the process

vars == <<phase, origin, args, pgh, outcome, errors, reported, out_str, initial_end, ser_result>>

NoArgs == [none |-> TRUE]

Init ==
    /\ phase = "none"
    /\ origin = "none"
    /\ args = NoArgs
    /\ pgh = DefaultBinaryParagraph
    /\ outcome = "none"
    /\ errors = {}
    /\ reported = {}
    /\ out_str = << >>
    /\ initial_end = 0
    /\ ser_result = "none"

ConstructionEnds(fields, r) ==
    /\ origin' = "fields"
    /\ args' = [fields |-> fields]
    /\ pgh' = r.pgh
    /\ outcome' = r.outcome
    /\ errors' = r.errors
    /\ reported' = r.reported
    /\ phase' = IF r.outcome = "constructed" THEN "live" ELSE "exited"

ConstructWith(fields) == ConstructionEnds(fields, BinaryParagraphFromFields(fields))

ConstructFromFields ==
    /\ phase = "none"
    /\ \E c \in FieldChoices : ConstructWith(Paragraph(c))
    /\ UNCHANGED <<out_str, initial_end, ser_result>>

ConstructFromSource ==
    /\ phase = "none"
    /\ \E a \in SourceChoices :
          /\ args' = a
          /\ pgh' = BinaryParagraphFromSource(a.spgh, a.default_features, a.triplet, a.abi_tag, a.deps)
    /\ origin' = "source"
    /\ outcome' = "constructed"
    /\ phase' = "live"
    /\ UNCHANGED <<errors, reported, out_str, initial_end, ser_result>>

ConstructFromFeature ==
    /\ phase = "none"
    /\ \E triplet \in Triplets, description \in SeqsUpTo(LineChoices, MaxLines),
          deps \in SeqsUpTo(DepSpecs, MaxDeps) :
          LET spec == PackageSpec(<<"zlib">>, triplet)
              fpgh == [name |-> <<"ssl">>, description |-> description]
          IN /\ args' = [spec |-> spec, fpgh |-> fpgh, deps |-> deps]
             /\ pgh' = BinaryParagraphFromFeature(spec, fpgh, deps)
    /\ origin' = "feature"
    /\ outcome' = "constructed"
    /\ phase' = "live"
    /\ UNCHANGED <<errors, reported, out_str, initial_end, ser_result>>

SerializeEnds(size, after, result) ==
    /\ initial_end' = size
    /\ out_str' = after
    /\ ser_result' = result
    /\ phase' = IF result = "returned" THEN "live" ELSE "exited"

\* size is out_str.size() on entry, after is out_str with the paragraph appended
SerializeAppending(size, after) ==
    SerializeEnds(size, after, SanityCheck(pgh, SubSeq(after, size + 1, Len(after))))

\* serialize(pgh, out_str), once per record
Serialize ==
    /\ phase = "live"
    /\ ser_result = "none"
    /\ \E before \in OutStrChoices : SerializeAppending(Len(before), before \o SerializedText(pgh))
    /\ UNCHANGED <<origin, args, pgh, outcome, errors, reported>>

\* the record's lifetime ends with ordinary scope exit
Destroy ==
    /\ phase = "live"
    /\ ser_result = "returned"
    /\ phase' = "none"
    /\ origin' = "none"
    /\ args' = NoArgs
    /\ pgh' = DefaultBinaryParagraph
    /\ outcome' = "none"
    /\ errors' = {}
    /\ reported' = {}
    /\ out_str' = << >>
    /\ initial_end' = 0
    /\ ser_result' = "none"

Next ==
    \/ ConstructFromFields
    \/ ConstructFromSource
    \/ ConstructFromFeature
    \/ Serialize
    \/ Destroy

Spec == Init /\ [][Next]_vars

\* ===================================================================== claims
Constructed == outcome = "constructed"

FromFields == origin = "fields"

\* the text the last serialize call appended
Emitted == SubSeq(out_str, initial_end + 1, Len(out_str))

ReparsedEquals(parsed_paragraph, original) ==
    /\ parsed_paragraph.ok
    /\ BinaryParagraphFromFields(parsed_paragraph.fields).outcome = "constructed"
    /\ \A f \in {"spec", "version", "description", "maintainers", "feature",
                 "default_features", "dependencies", "abi"} :
          BinaryParagraphFromFields(parsed_paragraph.fields).pgh[f] = original[f]

RoundTrips(text, original) == ReparsedEquals(parse_single_paragraph(text), original)

\* C1 (as stated): every record a constructor produced is equal, on all eight
\* fields, to the record parsed from the text serialize emits for it.
C1_RoundTripLaw == Constructed => RoundTrips(SerializedText(pgh), pgh)

\* C2: serialize returns only if the text it appended parses back to a record
\* equal to pgh on all eight fields; if it does not, the process has ended
\* with serialize never returning, and nothing runs after that.
C2_ReturnsOnlyAfterRoundTrip ==
    /\ ser_result = "returned" => RoundTrips(Emitted, pgh)
    /\ (ser_result # "none" /\ ~RoundTrips(Emitted, pgh)) => (phase = "exited" /\ ser_result # "returned")
    /\ phase = "exited" => ~ENABLED Next

\* C2's case: serialize appended to a non-empty out_str and returned
C2_Witness ==
    /\ ser_result = "returned"
    /\ initial_end > 0
    /\ pgh.dependencies # << >>
    /\ pgh.description # << >>

FieldOrder ==
    <<PACKAGE, VERSION, PORT_VERSION, FEATURE, DEPENDS, ARCHITECTURE, MULTI_ARCH,
      MAINTAINER, ABI, DESCRIPTION, DEFAULT_FEATURES>>

ShouldEmit(n) ==
    CASE n = PACKAGE -> TRUE
      [] n = VERSION -> pgh.version.text # << >>
      [] n = PORT_VERSION -> pgh.version.port_version # 0
      [] n = FEATURE -> pgh.feature # << >>
      [] n = DEPENDS -> pgh.dependencies # << >>
      [] n = ARCHITECTURE -> TRUE
      [] n = MULTI_ARCH -> TRUE
      [] n = MAINTAINER -> pgh.maintainers # << >>
      [] n = ABI -> pgh.abi # << >>
      [] n = DESCRIPTION -> pgh.description # << >>
      [] n = DEFAULT_FEATURES -> pgh.default_features # << >>

\* a field name at the start of a line of text, followed by ":"
IsHeaderAt(text, i) ==
    /\ i = 1 \/ text[i - 1] = "\n"
    /\ text[i] \in Range(FieldOrder)
    /\ i < Len(text)
    /\ text[i + 1] = ":"

HeaderPositions(text) == SelectSeq([i \in 1..Len(text) |-> i], LAMBDA i : IsHeaderAt(text, i))

HeadersOf(text) == [k \in 1..Len(HeaderPositions(text)) |-> text[HeaderPositions(text)[k]]]

PositionOf(text, name) == CHOOSE i \in 1..Len(text) : IsHeaderAt(text, i) /\ text[i] = name

\* what follows "name: " on its line
FirstLineFrom(text, i) == SubSeq(text, i + 3, MatchUntilLineEnd(text, i + 3) - 1)

FirstLineOf(text, name) == FirstLineFrom(text, PositionOf(text, name))

RenderedDependency(dep) ==
    IF dep.triplet = pgh.spec.triplet THEN dep.name ELSE dep.name \o <<":">> \o dep.triplet

\* C3: the text serialize appends holds the fields in the order Package,
\* Version, Port-Version, Feature, Depends, Architecture, Multi-Arch,
\* Maintainer, Abi, Description, Default-Features, each exactly under its
\* condition; Multi-Arch is "same"; a dependency is the bare name when its
\* triplet is the record's and name:triplet otherwise, joined by ", ".
C3_FieldOrderAndRendering ==
    ser_result # "none" =>
        /\ HeadersOf(Emitted) = SelectSeq(FieldOrder, ShouldEmit)
        /\ FirstLineOf(Emitted, PACKAGE) = pgh.spec.name
        /\ FirstLineOf(Emitted, ARCHITECTURE) = pgh.spec.triplet
        /\ FirstLineOf(Emitted, MULTI_ARCH) = <<"same">>
        /\ pgh.version.port_version # 0 =>
              StrToInt(FirstLineOf(Emitted, PORT_VERSION)) = Some(pgh.version.port_version)
        /\ pgh.dependencies # << >> =>
              FirstLineOf(Emitted, DEPENDS)
                  = StringsJoin(<<",", " ">>,
                                [i \in 1..Len(pgh.dependencies) |-> RenderedDependency(pgh.dependencies[i])])

\* C3's case: a serialized record with a port version, default features, a
\* dependency of its own triplet and one of another
C3_Witness ==
    /\ ser_result # "none"
    /\ pgh.version.port_version # 0
    /\ pgh.default_features # << >>
    /\ \E i \in 1..Len(pgh.dependencies) : pgh.dependencies[i].triplet = pgh.spec.triplet
    /\ \E i \in 1..Len(pgh.dependencies) : pgh.dependencies[i].triplet # pgh.spec.triplet

IsNonNegativeIntegerText(s) == s # << >> /\ \A i \in 1..Len(s) : IsDigit(s[i])

\* C4 (as stated): a Port-Version that is present and is not a non-negative
\* integer is an accumulated error and construction fails; no constructed
\* record has a negative port_version; an absent Port-Version gives 0.
C4_PortVersionNeverNegative ==
    /\ Constructed => pgh.version.port_version >= 0
    /\ (FromFields /\ PORT_VERSION \in DOMAIN args.fields
        /\ ~IsNonNegativeIntegerText(args.fields[PORT_VERSION]))
           => (PortVersionError \in errors /\ ~Constructed)
    /\ (FromFields /\ Constructed /\ PORT_VERSION \notin DOMAIN args.fields)
           => pgh.version.port_version = 0

\* C5: a record with a feature has no default features, whichever constructor
\* made it: the parsing constructor does not read Default-Features on a
\* feature record (not even to fail on it), the feature constructor leaves
\* default_features empty and the core-build constructor leaves feature empty.
C5_FeatureExclusivity ==
    /\ Constructed => (pgh.feature # << >> => pgh.default_features = << >>)
    /\ (Constructed /\ origin = "source") => pgh.feature = << >>
    /\ (Constructed /\ origin = "feature") => pgh.default_features = << >>
    /\ (FromFields /\ optional_field(args.fields, FEATURE) # << >>) => outcome # "exit_default_features"

\* C5's case: a record parsed from fields holding Feature and Default-Features
C5_Witness ==
    /\ FromFields
    /\ Constructed
    /\ FEATURE \in DOMAIN args.fields
    /\ DEFAULT_FEATURES \in DOMAIN args.fields

\* C6: the dependencies of a constructed record are strictly increasing in
\* the PackageSpec order (sorted, and no PackageSpec twice), whatever list
\* the constructor was given.
C6_DependenciesSortedUnique ==
    Constructed =>
        \A i, j \in 1..Len(pgh.dependencies) :
            i < j => PackageSpecLess(pgh.dependencies[i], pgh.dependencies[j])

\* C6's case: a core build given a dependency twice, out of order
C6_Witness ==
    /\ Constructed
    /\ origin = "source"
    /\ Len(args.deps) = 3
    /\ args.deps[1] = args.deps[3]
    /\ PackageSpecLess(args.deps[2], args.deps[1])
    /\ Len(pgh.dependencies) = 2

EntirelyWhitespace(e) == \A i \in 1..Len(e) : IsSpace(e[i])

\* C7 (as stated): no element of description or maintainers of a constructed
\* record is entirely whitespace.
C7_NoBlankElement ==
    Constructed =>
        /\ \A i \in 1..Len(pgh.description) : ~EntirelyWhitespace(pgh.description[i])
        /\ \A i \in 1..Len(pgh.maintainers) : ~EntirelyWhitespace(pgh.maintainers[i])

Trimmed(e) == e = << >> \/ (~IsSpace(e[1]) /\ ~IsSpace(e[Len(e)]))

TrimmedAndNotAllBlank(v) ==
    /\ \A i \in 1..Len(v) : Trimmed(v[i])
    /\ v # << >> => \E i \in 1..Len(v) : v[i] # << >>

\* C7 (as amended): every element of description and maintainers is trimmed,
\* and each list is either empty or holds at least one element that is not
\* empty; a blank line next to a non-blank one is kept, as the empty string.
C7_BlankListsCollapse ==
    Constructed => (TrimmedAndNotAllBlank(pgh.description) /\ TrimmedAndNotAllBlank(pgh.maintainers))

\* C7's case: blank lines mixed with non-blank ones in both lists
C7_Witness ==
    /\ Constructed
    /\ \E i \in 1..Len(pgh.description) : pgh.description[i] = << >>
    /\ \E i \in 1..Len(pgh.maintainers) : pgh.maintainers[i] = << >>

ParsedDepends == parse_qualified_specifier_list(optional_field(args.fields, DEPENDS)).value

ExpectedSpec(ref) ==
    [name |-> ref.name,
     triplet |-> IF ref.triplet.has_value THEN ref.triplet.value ELSE args.fields[ARCHITECTURE]]

\* C8: in a record parsed from fields, each reference of Depends is the
\* PackageSpec of its name and its explicit triplet, or of the Architecture
\* triplet when it names none; nothing else of the reference is kept.
C8_DependsResolution ==
    (FromFields /\ Constructed) =>
        /\ Range(pgh.dependencies) = {ExpectedSpec(ParsedDepends[i]) : i \in 1..Len(ParsedDepends)}
        /\ \A i \in 1..Len(pgh.dependencies) : DOMAIN pgh.dependencies[i] = {"name", "triplet"}

\* C8's case: a reference with no triplet, and one with a foreign triplet, a
\* feature list and a platform condition
C8_Witness ==
    /\ FromFields
    /\ Constructed
    /\ \E i \in 1..Len(ParsedDepends) : ~ParsedDepends[i].triplet.has_value
    /\ \E i \in 1..Len(ParsedDepends) :
          /\ ParsedDepends[i].triplet.has_value
          /\ ParsedDepends[i].triplet.value # pgh.spec.triplet
          /\ ParsedDepends[i].features # << >>
          /\ ParsedDepends[i].platform # << >>

ExpectedFieldErrors(fields) ==
    {MissingField(n) : n \in {PACKAGE, ARCHITECTURE, MULTI_ARCH} \ DOMAIN fields}
    \cup (IF PORT_VERSION \in DOMAIN fields /\ ~StrToInt(fields[PORT_VERSION]).has_value
          THEN {PortVersionError} ELSE {})

MalformedDepends(fields) == ~parse_qualified_specifier_list(optional_field(fields, DEPENDS)).ok

MalformedDefaultFeatures(fields) ==
    /\ optional_field(fields, FEATURE) = << >>
    /\ ~parse_default_features_list(optional_field(fields, DEFAULT_FEATURES)).ok

MultiArchIsSame == MULTI_ARCH \in DOMAIN args.fields /\ args.fields[MULTI_ARCH] = <<"same">>

ListExit == outcome \in {"exit_depends", "exit_default_features"}

====
